---- MODULE Spec2Model ----
(***************************************************************************)
(* Course-pace utilities of canvas-lms (course_paces/react/utils/utils.ts) *)
(* as a state machine: a caller picks arguments, calls one of the exported *)
(* functions and observes the returned value.  Dates are calendar dates    *)
(* (the strings 'YYYY-MM-DD' of the source); a moment is the day number of *)
(* its calendar date, counted from 1970-01-01.  Time zones and daylight    *)
(* saving are not modelled.                                                *)
(*                                                                         *)
(* The module also holds the account settings route                       *)
(* (AccountSettingsRoute.tsx), rendered by the same caller, and the dialog *)
(* MessageStudentsWhoDialog, driven by its user: each step of the dialog   *)
(* is one handler with the render and the effects that follow it.          *)
(***************************************************************************)
EXTENDS Integers, Sequences, FiniteSets, TLC

VARIABLES
  op,           \* "idle", or the name of the function whose call just returned
  args,         \* the arguments of that call, as passed
  result,       \* the value the call returned
  inputsAfter,  \* the argument objects as they are after the call returned
  features,     \* window.ENV.FEATURES
  props,        \* the props MessageStudentsWhoDialog is mounted with
  dialog,       \* the state of MessageStudentsWhoDialog, once effects have run
  called        \* the callbacks called by the dialog's latest step, in order

\* the variables of MessageStudentsWhoDialog
dialogVars == <<props, dialog, called>>

vars == <<op, args, result, inputsAfter, features, dialogVars>>

----------------------------------------------------------------------------
(* Bounds of the explored inputs *)

MaxCalendarDays == 30
MaxStartOffset == 1
MaxItems == 3
MaxDuration == 2
MaxBudget == 9
MaxWeight == 1
MaxWeightedItems == 2

----------------------------------------------------------------------------
(* JavaScript values and arithmetic *)

Null == [none |-> TRUE]

Undefined == [defined |-> FALSE, value |-> 0]

Some(n) == [defined |-> TRUE, value |-> n]

\* ToBoolean of a `number | undefined`: undefined and 0 are falsy
Truthy(v) == v.defined /\ v.value # 0

\* Math.floor(a / b) for integers a and b > 0
MathFloorDiv(a, b) == IF a >= 0 THEN a \div b ELSE -(((-a) + b - 1) \div b)

\* a % b of JavaScript: the remainder takes the sign of the dividend
JsRem(a, b) == IF a >= 0 THEN a % b ELSE -((-a) % b)

\* a JavaScript number: an integer, NaN or an infinity
Finite(n) == [kind |-> "finite", value |-> n]

NaN == [kind |-> "NaN", value |-> 0]

Infinity == [kind |-> "Infinity", value |-> 0]

NegInfinity == [kind |-> "-Infinity", value |-> 0]

\* Math.floor(a / b) for integers a, b: division by zero gives NaN or an infinity
JsFloorDivide(a, b) ==
  IF b = 0 THEN (IF a = 0 THEN NaN ELSE IF a > 0 THEN Infinity ELSE NegInfinity)
  ELSE IF b > 0 THEN Finite(MathFloorDiv(a, b))
  ELSE Finite(MathFloorDiv(-a, -b))

\* a % b for integers a, b: a % 0 is NaN
JsRemainder(a, b) ==
  IF b = 0 THEN NaN ELSE Finite(JsRem(a, IF b > 0 THEN b ELSE -b))

----------------------------------------------------------------------------
(* Calendar: 'YYYY-MM-DD' strings are records [y, m, d]; moment(string) is *)
(* the day number since 1970-01-01 (proleptic Gregorian calendar).         *)

Date(y, m, d) == [y |-> y, m |-> m, d |-> d]

\* moment('YYYY-MM-DD'): parse a calendar date
moment(date) ==
  LET y   == IF date.m <= 2 THEN date.y - 1 ELSE date.y
      era == y \div 400
      yoe == y - era * 400
      mp  == (date.m + 9) % 12
      doy == (153 * mp + 2) \div 5 + date.d - 1
      doe == yoe * 365 + yoe \div 4 - yoe \div 100 + doy
  IN  era * 146097 + doe - 719468

\* moment.format('YYYY-MM-DD'): the calendar date of a day number
formatDate(z0) ==
  LET z   == z0 + 719468
      era == z \div 146097
      doe == z - era * 146097
      yoe == (doe - doe \div 1460 + doe \div 36524 - doe \div 146096) \div 365
      y   == yoe + era * 400
      doy == doe - (365 * yoe + yoe \div 4 - yoe \div 100)
      mp  == (5 * doy + 2) \div 153
      d   == doy - (153 * mp + 2) \div 5 + 1
      m   == IF mp < 10 THEN mp + 3 ELSE mp - 9
  IN  Date(IF m <= 2 THEN y + 1 ELSE y, m, d)

\* moment.weekday(): 0 = Sunday .. 6 = Saturday (1970-01-01 was a Thursday)
weekday(day) == (day + 4) % 7

DayNames == <<"sun", "mon", "tue", "wed", "thu", "fri", "sat">>

dayName(day) == DayNames[weekday(day) + 1]

\* moment.startOf('day') of a calendar-day moment
startOfDay(day) == day

\* Instants within days, for comparisons with an end of day: the start of a
\* day is an even instant, its end the odd instant that follows
midnight(day) == 2 * day

\* moment.endOf('day')
endOfDay(day) == 2 * day + 1

\* a.isAfter(b) on instants
isAfter(a, b) == a > b

----------------------------------------------------------------------------
(* date_helpers and pace_due_dates_calculator: the day-counting primitives *)
(* and the Due-Date Calculator the utilities call.                         *)

\* inclusive count of calendar days from start to end (both moments)
rawDaysBetweenInclusive(start, end) == end - start + 1

inBlackoutDate(day, blackoutDates) ==
  \E i \in 1..Len(blackoutDates) :
    /\ blackoutDates[i].start_date <= day
    /\ day <= blackoutDates[i].end_date

\* a day on which no work is scheduled: a weekend day when weekends are
\* excluded, a selected day to skip when that feature is on, a blackout day
dayIsDisabled(day, excludeWeekends, selectedDaysToSkip, blackoutDates, env) ==
  \/ excludeWeekends /\ weekday(day) \in {0, 6}
  \/ env.course_paces_skip_selected_days /\ dayName(day) \in selectedDaysToSkip
  \/ inBlackoutDate(day, blackoutDates)

RECURSIVE addDaysFrom(_, _, _, _, _, _)
addDaysFrom(day, numberOfDays, excludeWeekends, selectedDaysToSkip, blackoutDates, env) ==
  IF numberOfDays <= 0 THEN day
  ELSE IF dayIsDisabled(day + 1, excludeWeekends, selectedDaysToSkip, blackoutDates, env)
       THEN addDaysFrom(day + 1, numberOfDays, excludeWeekends, selectedDaysToSkip,
                        blackoutDates, env)
       ELSE addDaysFrom(day + 1, numberOfDays - 1, excludeWeekends, selectedDaysToSkip,
                        blackoutDates, env)

\* the date numberOfDays eligible days after start, as a 'YYYY-MM-DD' string
addDays(start, numberOfDays, excludeWeekends, selectedDaysToSkip, blackoutDates, env) ==
  formatDate(addDaysFrom(moment(start), numberOfDays, excludeWeekends,
                         selectedDaysToSkip, blackoutDates, env))

\* the number of eligible days strictly between the start of the day start and
\* the instant end
daysBetween(start, end, excludeWeekends, selectedDaysToSkip, blackoutDates, env) ==
  Cardinality({day \in moment(start)..(end \div 2) :
                 /\ midnight(moment(start)) < midnight(day)
                 /\ midnight(day) < end
                 /\ ~dayIsDisabled(day, excludeWeekends, selectedDaysToSkip,
                                   blackoutDates, env)})

\* the due dates of the first n items, in item order
RECURSIVE dueDatesUpTo(_, _, _, _, _, _, _)
dueDatesUpTo(n, items, excludeWeekends, selectedDaysToSkip, blackoutDates, startDate, env) ==
  IF n = 0 THEN <<>>
  ELSE LET before == dueDatesUpTo(n - 1, items, excludeWeekends, selectedDaysToSkip,
                                  blackoutDates, startDate, env)
           from   == IF n = 1 THEN startDate ELSE before[n - 1]
       IN  Append(before, addDays(from, items[n].duration, excludeWeekends,
                                  selectedDaysToSkip, blackoutDates, env))

\* one due date per item: each item is due its duration in eligible days
\* after the previous item's due date, the first one after startDate
getDueDates(items, excludeWeekends, selectedDaysToSkip, blackoutDates, startDate, env) ==
  LET due == dueDatesUpTo(Len(items), items, excludeWeekends, selectedDaysToSkip,
                          blackoutDates, startDate, env)
      last(id) == CHOOSE i \in 1..Len(items) :
                    /\ items[i].id = id
                    /\ \A j \in 1..Len(items) : items[j].id = id => j <= i
  IN  [id \in {items[i].id : i \in 1..Len(items)} |-> due[last(id)]]

\* Object.values(o)
ObjectValues(o) == {o[k] : k \in DOMAIN o}

\* moment.max(moments); moment.max([]) is the current time
momentMax(moments, now) ==
  IF moments = {} THEN now
  ELSE CHOOSE m \in moments : \A n \in moments : n <= m

----------------------------------------------------------------------------
(* utils.ts *)

\* Math.ceil in place of Math.floor
calendarDaysToPaceDuration_Ceil(calendarDays) ==
  [weeks |-> MathFloorDiv(calendarDays + 6, 7), days |-> JsRem(calendarDays, 7)]

calendarDaysToPaceDuration(calendarDays) ==
  [weeks |-> MathFloorDiv(calendarDays, 7), days |-> JsRem(calendarDays, 7)]

\* the end date is not counted
calculatePaceDuration_Exclusive(startDate, endDate) ==
  LET planDays == rawDaysBetweenInclusive(startDate, endDate) - 1
  IN  calendarDaysToPaceDuration(planDays)

calculatePaceDuration(startDate, endDate) ==
  LET planDays == rawDaysBetweenInclusive(startDate, endDate)
  IN  calendarDaysToPaceDuration(planDays)

\* the default case falls through to the assignment weight
getDuration_DefaultAssignment(itemType, assignmentWeightedDuration) ==
  CASE itemType = "DiscussionTopic" -> assignmentWeightedDuration.discussion
    [] itemType = "Quizzes::Quiz"   -> assignmentWeightedDuration.quiz
    [] itemType = "Page"            -> assignmentWeightedDuration.page
    [] OTHER                        -> assignmentWeightedDuration.assignment

getDuration(itemType, assignmentWeightedDuration) ==
  CASE itemType = "Assignment"      -> assignmentWeightedDuration.assignment
    [] itemType = "DiscussionTopic" -> assignmentWeightedDuration.discussion
    [] itemType = "Quizzes::Quiz"   -> assignmentWeightedDuration.quiz
    [] itemType = "Page"            -> assignmentWeightedDuration.page
    [] OTHER                        -> Undefined

\* item.duration = duration; return item: the items are changed in place
calculatePaceItemDuration_InPlace(coursePaceItem, assignmentWeightedDuration) ==
  LET items == [i \in 1..Len(coursePaceItem) |->
                  LET item     == coursePaceItem[i]
                      weight   == getDuration(item.module_item_type,
                                              assignmentWeightedDuration)
                      duration == IF Truthy(weight) THEN weight.value ELSE item.duration
                  IN  [item EXCEPT !.duration = duration]]
  IN  [ret |-> items, coursePaceItem |-> items,
       assignmentWeightedDuration |-> assignmentWeightedDuration]

\* ret: the returned array; coursePaceItem, assignmentWeightedDuration: the
\* argument objects after the call (map and the spread build new objects)
calculatePaceItemDuration(coursePaceItem, assignmentWeightedDuration) ==
  [ret |-> [i \in 1..Len(coursePaceItem) |->
              LET item     == coursePaceItem[i]
                  weight   == getDuration(item.module_item_type, assignmentWeightedDuration)
                  duration == IF Truthy(weight) THEN weight.value ELSE item.duration
              IN  [item EXCEPT !.duration = duration]],
   coursePaceItem |-> coursePaceItem,
   assignmentWeightedDuration |-> assignmentWeightedDuration]

\* the span as the code computes it, from start_date to the latest due date
projectedCalendarDays(coursePace, coursePaceItem, excludeWeekends, blackoutDates, env, now) ==
  LET paceDueDates == getDueDates(coursePaceItem, excludeWeekends,
                                  coursePace.selected_days_to_skip, blackoutDates,
                                  coursePace.start_date, env)
      endDateValue == momentMax({moment(x) : x \in ObjectValues(paceDueDates)}, now)
      startDateMoment == startOfDay(moment(coursePace.start_date))
  IN  rawDaysBetweenInclusive(startDateMoment, endDateValue)

\* < in place of <=
isTimeToCompleteCalendarDaysValid_Strict(coursePace, coursePaceItem, blackoutDates, env, now) ==
  projectedCalendarDays(coursePace, coursePaceItem, coursePace.exclude_weekends,
                        blackoutDates, env, now)
    < coursePace.time_to_complete_calendar_days

\* the start day is not counted
isTimeToCompleteCalendarDaysValid_Exclusive(coursePace, coursePaceItem, blackoutDates, env, now) ==
  projectedCalendarDays(coursePace, coursePaceItem, coursePace.exclude_weekends,
                        blackoutDates, env, now) - 1
    <= coursePace.time_to_complete_calendar_days

\* exclude_weekends is not passed on to the Due-Date Calculator
isTimeToCompleteCalendarDaysValid_Weekends(coursePace, coursePaceItem, blackoutDates, env, now) ==
  projectedCalendarDays(coursePace, coursePaceItem, FALSE, blackoutDates, env, now)
    <= coursePace.time_to_complete_calendar_days

\* the blackout dates are not passed on to the Due-Date Calculator
isTimeToCompleteCalendarDaysValid_Blackouts(coursePace, coursePaceItem, blackoutDates, env, now) ==
  projectedCalendarDays(coursePace, coursePaceItem, coursePace.exclude_weekends,
                        <<>>, env, now)
    <= coursePace.time_to_complete_calendar_days

\* selected_days_to_skip is not passed on to the Due-Date Calculator
isTimeToCompleteCalendarDaysValid_SkipDays(coursePace, coursePaceItem, blackoutDates, env, now) ==
  projectedCalendarDays([coursePace EXCEPT !.selected_days_to_skip = {}], coursePaceItem,
                        coursePace.exclude_weekends, blackoutDates, env, now)
    <= coursePace.time_to_complete_calendar_days

\* the current time is among the moments the latest is taken of
isTimeToCompleteCalendarDaysValid_Now(coursePace, coursePaceItem, blackoutDates, env, now) ==
  LET paceDueDates == getDueDates(coursePaceItem, coursePace.exclude_weekends,
                                  coursePace.selected_days_to_skip, blackoutDates,
                                  coursePace.start_date, env)
      endDateValue == momentMax({moment(x) : x \in ObjectValues(paceDueDates)} \cup {now},
                                now)
      startDateMoment == startOfDay(moment(coursePace.start_date))
      calendarDays == rawDaysBetweenInclusive(startDateMoment, endDateValue)
  IN  calendarDays <= coursePace.time_to_complete_calendar_days

isTimeToCompleteCalendarDaysValid(coursePace, coursePaceItem, blackoutDates, env, now) ==
  LET paceDueDates == getDueDates(coursePaceItem, coursePace.exclude_weekends,
                                  coursePace.selected_days_to_skip, blackoutDates,
                                  coursePace.start_date, env)
      endDateValue == momentMax({moment(x) : x \in ObjectValues(paceDueDates)}, now)
      startDateMoment == startOfDay(moment(coursePace.start_date))
      calendarDays == rawDaysBetweenInclusive(startDateMoment, endDateValue)
  IN  calendarDays <= coursePace.time_to_complete_calendar_days

\* coursePace.modules.flatMap(module => module.items)
RECURSIVE flatMapItems(_)
flatMapItems(modules) ==
  IF modules = <<>> THEN <<>>
  ELSE Head(modules).items \o flatMapItems(Tail(modules))

\* only the first module's items are projected
getTimeToCompleteCalendarDaysFromItemsDuration_FirstModule(coursePace, blackOutDates, env, now) ==
  LET coursePaceItems == IF coursePace.modules = <<>> THEN <<>>
                         ELSE Head(coursePace.modules).items
      paceDueDates == getDueDates(coursePaceItems, coursePace.exclude_weekends,
                                  coursePace.selected_days_to_skip, blackOutDates,
                                  coursePace.start_date, env)
      endDateValue == momentMax({moment(x) : x \in ObjectValues(paceDueDates)}, now)
      startDateMoment == startOfDay(moment(coursePace.start_date))
  IN  rawDaysBetweenInclusive(startDateMoment, endDateValue) - 1

getTimeToCompleteCalendarDaysFromItemsDuration(coursePace, blackOutDates, env, now) ==
  LET coursePaceItems == flatMapItems(coursePace.modules)
      paceDueDates == getDueDates(coursePaceItems, coursePace.exclude_weekends,
                                  coursePace.selected_days_to_skip, blackOutDates,
                                  coursePace.start_date, env)
      endDateValue == momentMax({moment(x) : x \in ObjectValues(paceDueDates)}, now)
      startDateMoment == startOfDay(moment(coursePace.start_date))
  IN  rawDaysBetweenInclusive(startDateMoment, endDateValue) - 1

\* as getItemsDurationFromTimeToComplete, with a division that raises an error
\* on a zero divisor, as an integer division does
getItemsDurationFromTimeToComplete_Throws(coursePace, blackOutDays, calendarDays, itemsLength, env) ==
  IF calendarDays < 1 \/ coursePace.start_date = Undefined
  THEN [duration |-> Finite(0), remainder |-> Finite(0)]
  ELSE
    LET startDate == addDays(coursePace.start_date, 1, coursePace.exclude_weekends,
                             coursePace.selected_days_to_skip, blackOutDays, env)
        endDate   == endOfDay(moment(coursePace.start_date) + calendarDays)
    IN  IF isAfter(midnight(moment(startDate)), endDate)
        THEN [duration |-> Finite(0), remainder |-> Finite(0)]
        ELSE IF itemsLength = 0
        THEN [thrown |-> "RangeError"]
        ELSE
          LET totalDuration == daysBetween(startDate, endDate, coursePace.exclude_weekends,
                                           coursePace.selected_days_to_skip, blackOutDays,
                                           env)
              itemsDuration == JsFloorDivide(totalDuration, itemsLength)
          IN  [duration |-> itemsDuration,
               remainder |-> JsRemainder(totalDuration, itemsLength)]

\* as getItemsDurationFromTimeToComplete, without the guard on start_date: a
\* missing start date is read as a current date, as moment(undefined) is
getItemsDurationFromTimeToComplete_NoStartDateGuard(coursePace, blackOutDays, calendarDays, itemsLength, env) ==
  IF calendarDays < 1
  THEN [duration |-> Finite(0), remainder |-> Finite(0)]
  ELSE
    LET startDate == addDays((IF coursePace.start_date = Undefined THEN Date(2021, 9, 1)
                              ELSE coursePace.start_date), 1, coursePace.exclude_weekends,
                             coursePace.selected_days_to_skip, blackOutDays, env)
        endDate   == endOfDay(moment((IF coursePace.start_date = Undefined THEN Date(2021, 9, 1)
                              ELSE coursePace.start_date)) + calendarDays)
    IN  IF isAfter(midnight(moment(startDate)), endDate)
        THEN [duration |-> Finite(0), remainder |-> Finite(0)]
        ELSE
          LET totalDuration == daysBetween(startDate, endDate, coursePace.exclude_weekends,
                                           coursePace.selected_days_to_skip, blackOutDays,
                                           env)
              itemsDuration == JsFloorDivide(totalDuration, itemsLength)
          IN  [duration |-> itemsDuration,
               remainder |-> JsRemainder(totalDuration, itemsLength)]

\* as getItemsDurationFromTimeToComplete, without the guard on startDate
\* being after endDate
getItemsDurationFromTimeToComplete_NoRangeGuard(coursePace, blackOutDays, calendarDays, itemsLength, env) ==
  IF calendarDays < 1 \/ coursePace.start_date = Undefined
  THEN [duration |-> Finite(0), remainder |-> Finite(0)]
  ELSE
    LET startDate == addDays(coursePace.start_date, 1, coursePace.exclude_weekends,
                             coursePace.selected_days_to_skip, blackOutDays, env)
        endDate   == endOfDay(moment(coursePace.start_date) + calendarDays)
    IN  IF FALSE
        THEN [duration |-> Finite(0), remainder |-> Finite(0)]
        ELSE
          LET totalDuration == daysBetween(startDate, endDate, coursePace.exclude_weekends,
                                           coursePace.selected_days_to_skip, blackOutDays,
                                           env)
              itemsDuration == JsFloorDivide(totalDuration, itemsLength)
          IN  [duration |-> itemsDuration,
               remainder |-> JsRemainder(totalDuration, itemsLength)]

\* as getItemsDurationFromTimeToComplete, dividing the calendar days rather
\* than the eligible days
getItemsDurationFromTimeToComplete_CalendarDays(coursePace, blackOutDays, calendarDays, itemsLength, env) ==
  IF calendarDays < 1 \/ coursePace.start_date = Undefined
  THEN [duration |-> Finite(0), remainder |-> Finite(0)]
  ELSE
    LET startDate == addDays(coursePace.start_date, 1, coursePace.exclude_weekends,
                             coursePace.selected_days_to_skip, blackOutDays, env)
        endDate   == endOfDay(moment(coursePace.start_date) + calendarDays)
    IN  IF isAfter(midnight(moment(startDate)), endDate)
        THEN [duration |-> Finite(0), remainder |-> Finite(0)]
        ELSE
          LET totalDuration == calendarDays
              itemsDuration == JsFloorDivide(totalDuration, itemsLength)
          IN  [duration |-> itemsDuration,
               remainder |-> JsRemainder(totalDuration, itemsLength)]

getItemsDurationFromTimeToComplete(coursePace, blackOutDays, calendarDays, itemsLength, env) ==
  IF calendarDays < 1 \/ coursePace.start_date = Undefined
  THEN [duration |-> Finite(0), remainder |-> Finite(0)]
  ELSE
    LET startDate == addDays(coursePace.start_date, 1, coursePace.exclude_weekends,
                             coursePace.selected_days_to_skip, blackOutDays, env)
        endDate   == endOfDay(moment(coursePace.start_date) + calendarDays)
    IN  IF isAfter(midnight(moment(startDate)), endDate)
        THEN [duration |-> Finite(0), remainder |-> Finite(0)]
        ELSE
          LET totalDuration == daysBetween(startDate, endDate, coursePace.exclude_weekends,
                                           coursePace.selected_days_to_skip, blackOutDays,
                                           env)
              itemsDuration == JsFloorDivide(totalDuration, itemsLength)
          IN  [duration |-> itemsDuration,
               remainder |-> JsRemainder(totalDuration, itemsLength)]

----------------------------------------------------------------------------
(* AccountSettingsRoute.tsx.  A document is the set of its elements with an *)
(* id; an element is its id and its data-values attribute.                  *)

\* an element with the attribute data-values
ElementWithValues(id, values) == [id |-> id, hasValues |-> TRUE, values |-> values]

\* an element without the attribute data-values
Element(id) == [id |-> id, hasValues |-> FALSE, values |-> ""]

\* document.getElementById(id): the element, or null
getElementById(document, id) ==
  IF \E e \in document : e.id = id
  THEN CHOOSE e \in document : e.id = id
  ELSE Null

\* JSON.parse of the data-values the server renders: an object, as the set
\* of its keys with their values
JSONparse(text) ==
  CASE text = "{}" -> <<>>
    [] text = "{\"customNameOption\":\"custom\",\"customName\":\"Registrar\"}"
         -> [customNameOption |-> "custom", customName |-> "Registrar"]
    [] text = "{\"externalWarning\":\"true\",\"defaultName\":\"Canvas\"}"
         -> [externalWarning |-> "true", defaultName |-> "Canvas"]

\* data.key: the value, or undefined
get(data, key) == IF key \in DOMAIN data THEN data[key] ELSE "undefined"

notificationsTab(portals, accountId, document) ==
  LET mountPoint == getElementById(document, "tab-notifications")
  IN  IF mountPoint = Null THEN portals
      ELSE
        LET data == JSONparse(IF mountPoint.hasValues THEN mountPoint.values ELSE "{}")
        IN  Append(portals,
                   [mountPoint |-> mountPoint,
                    component |-> [type |-> "NotificationSettings",
                                   externalWarning |-> get(data, "externalWarning"),
                                   customNameOption |-> get(data, "customNameOption"),
                                   customName |-> get(data, "customName"),
                                   defaultName |-> get(data, "defaultName"),
                                   accountId |-> accountId]])

featureFlagsTab(portals, document) ==
  LET mountPoint == getElementById(document, "tab-features")
  IN  IF mountPoint = Null THEN portals
      ELSE Append(portals, [mountPoint |-> mountPoint,
                            component |-> [type |-> "FeatureFlags"]])

\* a portal is pushed whatever AlertListEntryPoint returns
alertsTab_Always(portals, document, alertList) ==
  LET mountPoint == getElementById(document, "alerts_mount_point")
  IN  IF mountPoint = Null THEN portals
      ELSE Append(portals, [mountPoint |-> mountPoint, component |-> alertList])

\* alertList is what AlertListEntryPoint() returns: a component or null
alertsTab(portals, document, alertList) ==
  LET mountPoint == getElementById(document, "alerts_mount_point")
  IN  IF mountPoint = Null THEN portals
      ELSE LET component == alertList
           IN  IF component # Null
               THEN Append(portals, [mountPoint |-> mountPoint, component |-> component])
               ELSE portals

\* the feature flags tab is rendered before the notifications tab
Component_FeatureFlagsFirst(document, params, alertList) ==
  LET p1 == featureFlagsTab(<<>>, document)
      p2 == notificationsTab(p1, params.accountId, document)
      portals == alertsTab(p2, document, alertList)
  IN  [i \in 1..Len(portals) |->
         [type |-> "Portal", key |-> portals[i].mountPoint.id, open |-> TRUE,
          mountNode |-> portals[i].mountPoint, children |-> portals[i].component]]

\* the rendered fragment, as the sequence of its portals
Component(document, params, alertList) ==
  LET p1 == notificationsTab(<<>>, params.accountId, document)
      p2 == featureFlagsTab(p1, document)
      portals == alertsTab(p2, document, alertList)
  IN  [i \in 1..Len(portals) |->
         [type |-> "Portal", key |-> portals[i].mountPoint.id, open |-> TRUE,
          mountNode |-> portals[i].mountPoint, children |-> portals[i].component]]

----------------------------------------------------------------------------
(* MessageStudentsWhoDialog.  Ids are the numbers their strings spell; the  *)
(* subject line, the media comment and the recipients table's visibility   *)
(* are not modelled: the table is taken as shown.                           *)

\* a string where null or undefined may stand
Str(text) == [string |-> text]

isScored(assignment) ==
  /\ assignment # Null
  /\ assignment.gradingType \in {"points", "percent", "letter_grade", "gpa_scale"}

\* allowedAttempts is a number here, so allowedAttempts || 0 is allowedAttempts
isReassignable(assignment) ==
  /\ assignment # Null
  /\ (assignment.allowedAttempts = -1 \/ assignment.allowedAttempts > 1)
  /\ assignment.dueAt # Null
  /\ assignment.submissionTypes
       \cap {"on_paper", "external_tool", "none", "discussion_topic", "online_quiz"} = {}

isSubmittableAssignment(assignment) ==
  /\ assignment # Null
  /\ assignment.submissionTypes \cap {"on_paper", "none", "not_graded", ""} = {}

\* the criteria, without their titles; shouldShow is the operator below
filterCriteria ==
  << [requiresCutoff |-> FALSE, value |-> "submitted_and_graded"],
     [requiresCutoff |-> FALSE, value |-> "submitted_and_not_graded"],
     [requiresCutoff |-> FALSE, value |-> "unsubmitted"],
     [requiresCutoff |-> FALSE, value |-> "unsubmitted_skip_excused"],
     [requiresCutoff |-> FALSE, value |-> "submitted"],
     [requiresCutoff |-> FALSE, value |-> "ungraded"],
     [requiresCutoff |-> TRUE,  value |-> "scored_more_than"],
     [requiresCutoff |-> TRUE,  value |-> "scored_less_than"],
     [requiresCutoff |-> FALSE, value |-> "marked_incomplete"],
     [requiresCutoff |-> FALSE, value |-> "reassigned"],
     [requiresCutoff |-> TRUE,  value |-> "total_grade_higher_than"],
     [requiresCutoff |-> TRUE,  value |-> "total_grade_lower_than"] >>

\* as shouldShow, with 'Have submitted and been graded' shown as 'Have
\* submitted' is
shouldShow_GradedShown(criterion, assignment) ==
  CASE criterion.value \in {"submitted_and_not_graded", "unsubmitted_skip_excused"}
         -> FALSE
    [] criterion.value \in {"unsubmitted", "submitted", "submitted_and_graded"}
         -> isSubmittableAssignment(assignment)
    [] criterion.value = "ungraded" -> assignment # Null
    [] criterion.value \in {"scored_more_than", "scored_less_than"} -> isScored(assignment)
    [] criterion.value = "marked_incomplete"
         -> assignment # Null /\ assignment.gradingType = "pass_fail"
    [] criterion.value = "reassigned" -> isReassignable(assignment)
    [] criterion.value \in {"total_grade_higher_than", "total_grade_lower_than"}
         -> assignment = Null

\* criterion.shouldShow(assignment)
shouldShow(criterion, assignment) ==
  CASE criterion.value \in {"submitted_and_graded", "submitted_and_not_graded",
                            "unsubmitted_skip_excused"}
         -> FALSE
    [] criterion.value \in {"unsubmitted", "submitted"}
         -> isSubmittableAssignment(assignment)
    [] criterion.value = "ungraded" -> assignment # Null
    [] criterion.value \in {"scored_more_than", "scored_less_than"} -> isScored(assignment)
    [] criterion.value = "marked_incomplete"
         -> assignment # Null /\ assignment.gradingType = "pass_fail"
    [] criterion.value = "reassigned" -> isReassignable(assignment)
    [] criterion.value \in {"total_grade_higher_than", "total_grade_lower_than"}
         -> assignment = Null

\* filterCriteria.find(criterion => criterion.value === value)
findCriterion(value) ==
  IF \E i \in 1..Len(filterCriteria) : filterCriteria[i].value = value
  THEN filterCriteria[CHOOSE i \in 1..Len(filterCriteria) : filterCriteria[i].value = value]
  ELSE Undefined

availableCriteria(assignment) ==
  LET show(criterion) == shouldShow(criterion, assignment)
  IN  SelectSeq(filterCriteria, show)

\* a > b on a number or undefined a and a number b
JsGreater(a, b) == a.defined /\ b.kind = "finite" /\ a.value > b.value

\* a < b on a number or undefined a and a number b
JsLess(a, b) == a.defined /\ b.kind = "finite" /\ a.value < b.value

\* the test filterStudents makes of a student
studentMatches(criterion, student, cutoff) ==
  CASE criterion.value = "unsubmitted" -> student.submittedAt = Null
    [] criterion.value = "submitted" -> student.submittedAt # Null
    [] criterion.value = "submitted_and_graded"
         -> /\ student.submittedAt # Null
            /\ student.grade # Null
            /\ student.workflowState # "pending_review"
    [] criterion.value = "submitted_and_not_graded"
         -> /\ student.submittedAt # Null
            /\ (student.grade = Null \/ student.workflowState = "pending_review")
    [] criterion.value = "unsubmitted_skip_excused"
         -> student.submittedAt = Null /\ ~student.excused
    [] criterion.value = "ungraded"
         -> \/ student.grade = Null /\ ~student.excused
            \/ student.workflowState = "pending_review"
    [] criterion.value = "scored_more_than" -> JsGreater(student.score, cutoff)
    [] criterion.value = "scored_less_than" -> JsLess(student.score, cutoff)
    [] criterion.value = "marked_incomplete" -> student.grade = Str("incomplete")
    [] criterion.value = "reassigned" -> student.redoRequest
    [] criterion.value = "total_grade_higher_than"
         -> JsGreater(student.currentScore, cutoff)
    [] criterion.value = "total_grade_lower_than"
         -> JsLess(student.currentScore, cutoff)

filterStudents(criterion, students, cutoff) ==
  LET matches(student) == studentMatches(criterion, student, cutoff)
  IN  SelectSeq(students, matches)

\* the order of the sortable names under localeCompare
Collation == <<"Adams, Ann", "Baker, Bob", "Clark, Cy">>

\* a.localeCompare(b)
localeCompare(a, b) ==
  (CHOOSE i \in 1..Len(Collation) : Collation[i] = a)
    - (CHOOSE i \in 1..Len(Collation) : Collation[i] = b)

\* student put into the sorted list sorted, after the students that do not
\* compare greater
RECURSIVE insertByName(_, _)
insertByName(student, sorted) ==
  IF sorted = <<>> THEN <<student>>
  ELSE IF localeCompare(Head(sorted).sortableName, student.sortableName) <= 0
       THEN <<Head(sorted)>> \o insertByName(student, Tail(sorted))
       ELSE <<student>> \o sorted

\* [...students].sort((a, b) => a.sortableName.localeCompare(b.sortableName))
RECURSIVE sortedStudents(_)
sortedStudents(students) ==
  IF students = <<>> THEN <<>>
  ELSE insertByName(students[Len(students)],
                    sortedStudents(SubSeq(students, 1, Len(students) - 1)))

\* the numbers of a set in ascending order
RECURSIVE ascending(_)
ascending(numbers) ==
  IF numbers = {} THEN <<>>
  ELSE LET least == CHOOSE n \in numbers : \A m \in numbers : n <= m
       IN  <<least>> \o ascending(numbers \ {least})

\* Object.keys of an object whose keys spell numbers: in ascending order
ObjectKeys(object) == ascending(DOMAIN object)

\* the concatenation of the sequences seqs[keys[1]], seqs[keys[2]], ...
RECURSIVE flatAt(_, _)
flatAt(seqs, keys) ==
  IF keys = <<>> THEN <<>>
  ELSE seqs[Head(keys)] \o flatAt(seqs, Tail(keys))

\* Object.values(object).flat()
ObjectValuesFlat(object) == flatAt(object, ObjectKeys(object))

\* [...new Set(array)]: the first occurrences, in order
RECURSIVE unique(_)
unique(array) ==
  IF array = <<>> THEN <<>>
  ELSE LET front == unique(SubSeq(array, 1, Len(array) - 1))
           last  == array[Len(array)]
       IN  IF \E i \in 1..Len(front) : front[i] = last THEN front
           ELSE Append(front, last)

\* text.trim() on a sequence of characters
RECURSIVE trimStart(_)
trimStart(text) ==
  IF text # <<>> /\ Head(text) = " " THEN trimStart(Tail(text)) ELSE text

RECURSIVE trimEnd(_)
trimEnd(text) ==
  IF text # <<>> /\ text[Len(text)] = " "
  THEN trimEnd(SubSeq(text, 1, Len(text) - 1))
  ELSE text

trim(text) == trimEnd(trimStart(text))

\* parseFloat of what the cutoff input holds
parseFloat(value) ==
  CASE value = "0" -> Finite(0)
    [] value = "50" -> Finite(50)
    [] value = "90" -> Finite(90)
    [] value = "-" -> NaN

initializeSelectedObservers(studentCollection) ==
  [id \in {studentCollection[i].id : i \in 1..Len(studentCollection)} |-> <<>>]

\* observersByStudentID, of the ids of the observers
observerCount(students, observers) ==
  LET count[n \in 0..Len(students)] ==
        IF n = 0 THEN 0
        ELSE count[n - 1]
               + (IF students[n].id \in DOMAIN observers
                  THEN Len(observers[students[n].id]) ELSE 0)
  IN  count[Len(students)]

calculateObserverRecipientCount(selectedObservers) == Len(ObjectValuesFlat(selectedObservers))

\* as isLengthBetweenBoundaries, with the whole counted as a part
isLengthBetweenBoundaries_Inclusive(subsetLength, totalLength) ==
  subsetLength > 0 /\ subsetLength <= totalLength

isLengthBetweenBoundaries(subsetLength, totalLength) ==
  subsetLength > 0 /\ subsetLength < totalLength

toggleSelection(id, array) ==
  IF \E i \in 1..Len(array) : array[i] = id
  THEN LET index == CHOOSE i \in 1..Len(array) :
                      array[i] = id /\ \A j \in 1..(i - 1) : array[j] # id
       IN  SubSeq(array, 1, index - 1) \o SubSeq(array, index + 1, Len(array))
  ELSE Append(array, id)

isMessagePresent(d) == Len(trim(d.message)) > 0

areRecipientsPresent(d) ==
  Len(d.selectedStudents) + Len(ObjectValuesFlat(d.selectedObservers)) > 0

isFormDataValid(d) == isMessagePresent(d) /\ areRecipientsPresent(d)

\* useEffect(..., [selectedStudents, filteredStudents])
effectStudentsCheckbox(d) ==
  [d EXCEPT
     !.isIndeterminateStudentsCheckbox =
        isLengthBetweenBoundaries(Len(d.selectedStudents), Len(d.filteredStudents)),
     !.isDisabledStudentsCheckbox = (Len(d.filteredStudents) = 0),
     !.isCheckedStudentsCheckbox =
        (Len(d.filteredStudents) > 0
           /\ Len(d.selectedStudents) = Len(d.filteredStudents))]

\* useEffect(..., [filteredStudents, observersByStudentID, selectedObservers])
effectObserversCheckbox(d, observersByStudentID) ==
  LET observerCountValue == observerCount(d.filteredStudents, observersByStudentID)
      selectedObserverCount == Len(ObjectValuesFlat(d.selectedObservers))
  IN  [d EXCEPT
         !.isIndeterminateObserversCheckbox =
            isLengthBetweenBoundaries(selectedObserverCount, observerCountValue),
         !.isDisabledObserversCheckbox = (observerCountValue = 0),
         !.isCheckedObserversCheckbox =
            (observerCountValue > 0 /\ selectedObserverCount = observerCountValue)]

\* as effectResetSelection, keeping the observers selected so far
effectResetSelection_KeepObservers(d) ==
  LET initialValue == initializeSelectedObservers(d.filteredStudents)
  IN  [d EXCEPT !.selectedStudents = ObjectKeys(initialValue)]

\* useEffect(..., [filteredStudents])
effectResetSelection(d) ==
  LET initialValue == initializeSelectedObservers(d.filteredStudents)
  IN  [d EXCEPT !.selectedObservers = initialValue,
                !.selectedStudents = ObjectKeys(initialValue)]

\* the effects that run after a render in which the selection changed
afterSelectionChange(d, observersByStudentID) ==
  effectObserversCheckbox(effectStudentsCheckbox(d), observersByStudentID)

\* the effects that run after a render with a new filteredStudents array
afterFilterChange(d, observersByStudentID) ==
  afterSelectionChange(effectResetSelection(d), observersByStudentID)

\* the dropdown's criterion changed: the radio group and the checkbox under
\* it are mounted anew when they were not shown before
remountCriterionInputs(d, newCriterion) ==
  [d EXCEPT
     !.submissionRadio =
        IF d.selectedCriterion.value = "submitted" /\ newCriterion.value = "submitted"
        THEN d.submissionRadio ELSE "all",
     !.skipExcusedChecked =
        d.selectedCriterion.value = "unsubmitted" /\ newCriterion.value = "unsubmitted"
          /\ d.skipExcusedChecked]

\* the state of the dialog after its first render and the effects of it
mounted(p) ==
  LET criterion == availableCriteria(p.assignment)[1]
      first ==
        [selectedCriterion |-> criterion,
         cutoff |-> Finite(0),
         filteredStudents |-> filterStudents(criterion, sortedStudents(p.students),
                                             Finite(0)),
         selectedObservers |-> initializeSelectedObservers(p.students),
         selectedStudents |-> ObjectKeys(initializeSelectedObservers(p.students)),
         isIndeterminateStudentsCheckbox |-> FALSE,
         isIndeterminateObserversCheckbox |-> FALSE,
         isCheckedStudentsCheckbox |-> TRUE,
         isCheckedObserversCheckbox |-> FALSE,
         isDisabledStudentsCheckbox |-> FALSE,
         isDisabledObserversCheckbox |-> FALSE,
         message |-> <<>>,
         isSubmitted |-> FALSE,
         sending |-> FALSE,
         attachments |-> <<>>,
         pendingUploads |-> <<>>,
         submissionRadio |-> "all",
         skipExcusedChecked |-> FALSE]
  IN  afterFilterChange(first, p.observersByStudentID)

\* the handlers of the dialog: each gives the state after the handler, the
\* render that follows and the effects of that render

handleCriterionSelected(d, p, value) ==
  LET newCriterion == findCriterion(value)
  IN  IF newCriterion # Undefined
      THEN afterFilterChange(
             [remountCriterionInputs(d, newCriterion) EXCEPT
                !.selectedCriterion = newCriterion,
                !.filteredStudents =
                   filterStudents(newCriterion, sortedStudents(p.students), d.cutoff)],
             p.observersByStudentID)
      ELSE d

\* the radio button clicked is the one checked from then on
onSubmissionRadioSelect(d, p, value) ==
  LET criterion == findCriterion(value)
      radio == CASE value = "submitted" -> "all"
                 [] value = "submitted_and_graded" -> "graded"
                 [] value = "submitted_and_not_graded" -> "not_graded"
  IN  IF criterion # Undefined
      THEN afterFilterChange(
             [d EXCEPT
                !.submissionRadio = radio,
                !.filteredStudents =
                   filterStudents(criterion, sortedStudents(p.students), d.cutoff)],
             p.observersByStudentID)
      ELSE d

\* checked is event.target.checked
onExcusedCheckBoxChange(d, p, checked) ==
  LET criteriaValue == IF checked THEN "unsubmitted_skip_excused" ELSE "unsubmitted"
      criterion == findCriterion(criteriaValue)
  IN  IF criterion # Undefined
      THEN afterFilterChange(
             [d EXCEPT
                !.skipExcusedChecked = checked,
                !.filteredStudents =
                   filterStudents(criterion, sortedStudents(p.students), d.cutoff)],
             p.observersByStudentID)
      ELSE d

\* onChange of the cutoff NumberInput
onCutoffChange(d, p, value) ==
  LET actualValue == IF value = "" THEN Finite(0) ELSE parseFloat(value)
  IN  IF actualValue # Finite(0)
      THEN afterFilterChange(
             [d EXCEPT
                !.cutoff = actualValue,
                !.filteredStudents =
                   filterStudents(d.selectedCriterion, sortedStudents(p.students),
                                  actualValue)],
             p.observersByStudentID)
      ELSE [d EXCEPT !.cutoff = actualValue]

toggleStudentSelection(d, p, id) ==
  afterSelectionChange([d EXCEPT !.selectedStudents = toggleSelection(id, @)],
                       p.observersByStudentID)

toggleObserverSelection(d, p, studentId, observerId) ==
  LET observers == d.selectedObservers[studentId]
      updatedObservers == toggleSelection(observerId, observers)
  IN  afterSelectionChange(
        [d EXCEPT !.selectedObservers =
                     [id \in DOMAIN @ \cup {studentId} |->
                        IF id = studentId THEN updatedObservers ELSE @[id]]],
        p.observersByStudentID)

\* as onStudentsCheckboxChanged, selecting every student of the course
onStudentsCheckboxChanged_AllStudents(d, p, checked) ==
  afterSelectionChange(
    [d EXCEPT !.selectedStudents =
                 IF checked
                 THEN [i \in 1..Len(p.students) |-> p.students[i].id]
                 ELSE <<>>],
    p.observersByStudentID)

onStudentsCheckboxChanged(d, p, checked) ==
  afterSelectionChange(
    [d EXCEPT !.selectedStudents =
                 IF checked
                 THEN [i \in 1..Len(d.filteredStudents) |-> d.filteredStudents[i].id]
                 ELSE <<>>],
    p.observersByStudentID)

onObserversCheckboxChanged(d, p, checked) ==
  afterSelectionChange(
    [d EXCEPT !.selectedObservers =
                 IF checked
                 THEN [id \in {d.filteredStudents[i].id : i \in 1..Len(d.filteredStudents)}
                         |-> IF id \in DOMAIN p.observersByStudentID
                             THEN p.observersByStudentID[id] ELSE <<>>]
                 ELSE initializeSelectedObservers(p.students)],
    p.observersByStudentID)

\* as sendMessageArgs, with the recipients as they are listed
sendMessageArgs_Listed(d) ==
  LET recipientsIds == d.selectedStudents \o ObjectValuesFlat(d.selectedObservers)
  IN  IF Len(d.attachments) # 0
      THEN [recipientsIds |-> recipientsIds, body |-> trim(d.message),
            attachmentIds |-> d.attachments]
      ELSE [recipientsIds |-> recipientsIds, body |-> trim(d.message)]

\* the arguments handleSendButton passes to onSend, without the subject and
\* the media file
sendMessageArgs(d) ==
  LET recipientsIds == d.selectedStudents \o ObjectValuesFlat(d.selectedObservers)
      uniqueRecipientsIds == unique(recipientsIds)
  IN  IF Len(d.attachments) # 0
      THEN [recipientsIds |-> uniqueRecipientsIds, body |-> trim(d.message),
            attachmentIds |-> d.attachments]
      ELSE [recipientsIds |-> uniqueRecipientsIds, body |-> trim(d.message)]

\* as handleSendButton, without the test of pendingUploads
handleSendButton_SendsAtOnce(d) ==
  LET submitted == [d EXCEPT !.isSubmitted = TRUE]
  IN  IF ~isFormDataValid(d)
      THEN [dialog |-> submitted, called |-> <<>>]
      ELSE [dialog |-> submitted,
            called |-> <<[fn |-> "onSend", caller |-> "handleSendButton",
                          args |-> sendMessageArgs(d)],
                         [fn |-> "onClose", caller |-> "handleSendButton"]>>]

\* as handleSendButton, without the test of isFormDataValid
handleSendButton_NoValidation(d) ==
  LET submitted == [d EXCEPT !.isSubmitted = TRUE]
  IN  IF Len(d.pendingUploads) # 0
      THEN [dialog |-> [submitted EXCEPT !.sending = TRUE], called |-> <<>>]
      ELSE [dialog |-> submitted,
            called |-> <<[fn |-> "onSend", caller |-> "handleSendButton",
                          args |-> sendMessageArgs(d)],
                         [fn |-> "onClose", caller |-> "handleSendButton"]>>]

\* the state after the handler, and the callbacks it called
handleSendButton(d) ==
  LET submitted == [d EXCEPT !.isSubmitted = TRUE]
  IN  IF ~isFormDataValid(d)
      THEN [dialog |-> submitted, called |-> <<>>]
      ELSE IF Len(d.pendingUploads) # 0
      THEN [dialog |-> [submitted EXCEPT !.sending = TRUE], called |-> <<>>]
      ELSE [dialog |-> submitted,
            called |-> <<[fn |-> "onSend", caller |-> "handleSendButton",
                          args |-> sendMessageArgs(d)],
                         [fn |-> "onClose", caller |-> "handleSendButton"]>>]

\* AttachmentUploadSpinner after a render: it calls sendMessage when the
\* message is sending and no upload is pending
attachmentUploadSpinner(d) ==
  IF d.sending /\ Len(d.pendingUploads) = 0
  THEN <<[fn |-> "onSend", caller |-> "AttachmentUploadSpinner"]>>
  ELSE <<>>

\* onAddAttachment: the upload of the file starts
onAddAttachment(d, file) == [d EXCEPT !.pendingUploads = Append(@, file)]

\* the upload of the file is complete: it is an attachment from then on
onUploadComplete(d, file) ==
  LET others(upload) == upload # file
  IN  [d EXCEPT !.pendingUploads = SelectSeq(@, others),
                !.attachments = Append(@, file)]

----------------------------------------------------------------------------
(* The inputs the caller draws from *)

ItemTypes == {"Assignment", "DiscussionTopic", "Quizzes::Quiz", "Page", "ExternalTool"}

\* a CoursePaceItem: its id is its position in the pace
Item(i, type, d) == [id |-> i, module_item_type |-> type, duration |-> d]

\* the items of a pace whose durations matter: sequences of assignments
PaceItems ==
  UNION {{[i \in 1..n |-> Item(i, "Assignment", ds[i])] : ds \in [1..n -> 0..MaxDuration]}
         : n \in 0..MaxItems}

\* the items whose durations are to be weighted: every type, with an original
\* duration of zero or of MaxDuration
WeightedItems ==
  UNION {{[i \in 1..n |-> Item(i, ts[i], ds[i])] :
            ts \in [1..n -> ItemTypes], ds \in [1..n -> {0, MaxDuration}]}
         : n \in 0..MaxWeightedItems}

\* a weight is undefined, zero or positive
Weights == {Undefined, Some(0), Some(MaxWeight)}

Weightings == [assignment : Weights, discussion : Weights, quiz : Weights, page : Weights]

FirstStart == moment(Date(2021, 9, 1))

StartDates == {formatDate(FirstStart + k) : k \in 0..MaxStartOffset}

SelectedDaysToSkip == {{}, {"mon", "tue"}}

BlackoutDate(from, to) == [start_date |-> moment(from), end_date |-> moment(to)]

BlackoutDates ==
  {<<>>, <<BlackoutDate(Date(2021, 9, 2), Date(2021, 9, 3))>>,
   <<BlackoutDate(Date(2021, 9, 4), Date(2021, 9, 4))>>}

CoursePaces ==
  [start_date : StartDates, exclude_weekends : BOOLEAN,
   selected_days_to_skip : SelectedDaysToSkip,
   time_to_complete_calendar_days : 0..MaxBudget]

\* the modules of a pace: none, one module, or the items cut into two modules
PaceModules ==
  {<<>>}
  \cup {<<[items |-> items]>> : items \in PaceItems}
  \cup UNION {{<<[items |-> SubSeq(items, 1, cut)],
                 [items |-> SubSeq(items, cut + 1, Len(items))]>> : cut \in 0..Len(items)}
              : items \in PaceItems}

\* the paces whose modules are projected; the budget is not read
PacesWithModules ==
  [start_date : StartDates, exclude_weekends : BOOLEAN,
   selected_days_to_skip : SelectedDaysToSkip,
   time_to_complete_calendar_days : {MaxBudget}, modules : PaceModules]

\* the paces a day budget is spread over: the start date may be missing
PacesToSpread ==
  [start_date : StartDates \cup {Undefined}, exclude_weekends : BOOLEAN,
   selected_days_to_skip : SelectedDaysToSkip,
   time_to_complete_calendar_days : {MaxBudget}]

\* the moments calculatePaceDuration is called with
DurationMoments == {moment(Date(2021, 12, 25)) + k : k \in 0..MaxCalendarDays}

\* the current time when a call is made
Nows == {FirstStart - 1, FirstStart + MaxBudget}

\* the elements a settings page may hold
PageElements ==
  {Element("tab-notifications"),
   ElementWithValues("tab-notifications",
                     "{\"customNameOption\":\"custom\",\"customName\":\"Registrar\"}"),
   ElementWithValues("tab-notifications",
                     "{\"externalWarning\":\"true\",\"defaultName\":\"Canvas\"}"),
   Element("tab-features"), Element("alerts_mount_point"), Element("tab-settings"),
   Element("content")}

\* the documents: no two elements share an id
Documents ==
  {document \in SUBSET PageElements :
     \A e1, e2 \in document : e1.id = e2.id => e1 = e2}

\* useParams()
RouteParams == {[accountId |-> "undefined"], [accountId |-> "1"]}

\* what AlertListEntryPoint() returns
AlertLists == {Null, [type |-> "AlertList"]}

\* the assignments the dialog is opened for, and null for a total grade
DialogAssignments ==
  {Null,
   [gradingType |-> "points", submissionTypes |-> {"online_text_entry"},
    allowedAttempts |-> -1, dueAt |-> Date(2025, 1, 15)],
   [gradingType |-> "pass_fail", submissionTypes |-> {"on_paper"},
    allowedAttempts |-> 1, dueAt |-> Null],
   [gradingType |-> "letter_grade", submissionTypes |-> {"online_quiz"},
    allowedAttempts |-> 2, dueAt |-> Date(2025, 1, 15)]}

\* the students of the course, as the gradebook lists them
DialogStudents ==
  << [id |-> 2, sortableName |-> "Baker, Bob", submittedAt |-> Null, grade |-> Null,
      workflowState |-> "unsubmitted", excused |-> TRUE, score |-> Undefined,
      currentScore |-> Some(40), redoRequest |-> FALSE],
     [id |-> 1, sortableName |-> "Adams, Ann", submittedAt |-> Date(2025, 1, 10),
      grade |-> Str("A"), workflowState |-> "graded", excused |-> FALSE,
      score |-> Some(80), currentScore |-> Some(80), redoRequest |-> FALSE],
     [id |-> 3, sortableName |-> "Clark, Cy", submittedAt |-> Date(2025, 1, 12),
      grade |-> Str("incomplete"), workflowState |-> "pending_review",
      excused |-> FALSE, score |-> Some(40), currentScore |-> Undefined,
      redoRequest |-> TRUE] >>

\* the observers of the students: one observes two students
DialogObservers == [id \in {1, 3} |-> <<10>>]

DialogProps ==
  [assignment : DialogAssignments, students : {DialogStudents},
   observersByStudentID : {DialogObservers}]

\* what the message input may hold
Messages == {<<>>, <<" ">>, <<" ", "h", "i", " ">>}

\* what the cutoff input may hold
CutoffInputs == {"", "0", "50", "90", "-"}

\* the files the user may attach
Files == {"file1"}

----------------------------------------------------------------------------
(* The caller *)

Init ==
  /\ op = "idle"
  /\ args = Null
  /\ result = Null
  /\ inputsAfter = Null
  /\ features = [course_paces_skip_selected_days |-> FALSE]
  /\ props = Null
  /\ dialog = Null
  /\ called = <<>>

\* window.ENV.FEATURES.course_paces_skip_selected_days = b
SetFeature ==
  /\ op = "idle"
  /\ \E b \in BOOLEAN : features' = [course_paces_skip_selected_days |-> b]
  /\ features' # features
  /\ UNCHANGED <<op, args, result, inputsAfter, dialogVars>>

CallCalendarDaysToPaceDuration ==
  /\ op = "idle"
  /\ \E calendarDays \in (-MaxCalendarDays)..MaxCalendarDays :
       /\ args' = [calendarDays |-> calendarDays]
       /\ result' = calendarDaysToPaceDuration(calendarDays)
  /\ op' = "calendarDaysToPaceDuration"
  /\ UNCHANGED <<inputsAfter, features, dialogVars>>

CallCalculatePaceDuration ==
  /\ op = "idle"
  /\ \E startDate \in DurationMoments, endDate \in DurationMoments :
       /\ args' = [startDate |-> startDate, endDate |-> endDate]
       /\ result' = calculatePaceDuration(startDate, endDate)
  /\ op' = "calculatePaceDuration"
  /\ UNCHANGED <<inputsAfter, features, dialogVars>>

CallCalculatePaceItemDuration ==
  /\ op = "idle"
  /\ \E coursePaceItem \in WeightedItems, assignmentWeightedDuration \in Weightings :
       LET r == calculatePaceItemDuration(coursePaceItem, assignmentWeightedDuration)
       IN  /\ args' = [coursePaceItem |-> coursePaceItem,
                       assignmentWeightedDuration |-> assignmentWeightedDuration]
           /\ result' = r.ret
           /\ inputsAfter' = [coursePaceItem |-> r.coursePaceItem,
                              assignmentWeightedDuration |-> r.assignmentWeightedDuration]
  /\ op' = "calculatePaceItemDuration"
  /\ UNCHANGED <<features, dialogVars>>

CallIsTimeToCompleteCalendarDaysValid ==
  /\ op = "idle"
  /\ \E coursePace \in CoursePaces, coursePaceItem \in PaceItems,
        blackoutDates \in BlackoutDates, now \in Nows :
       \* the current time is read only when there is no due date
       /\ coursePaceItem = <<>> \/ now = FirstStart - 1
       /\ args' = [coursePace |-> coursePace, coursePaceItem |-> coursePaceItem,
                   blackoutDates |-> blackoutDates, now |-> now]
       /\ result' = isTimeToCompleteCalendarDaysValid(coursePace, coursePaceItem,
                                                      blackoutDates, features, now)
  /\ op' = "isTimeToCompleteCalendarDaysValid"
  /\ UNCHANGED <<inputsAfter, features, dialogVars>>

CallGetTimeToCompleteCalendarDaysFromItemsDuration ==
  /\ op = "idle"
  /\ \E coursePace \in PacesWithModules, blackOutDates \in BlackoutDates, now \in Nows :
       \* the current time is read only when there is no due date
       /\ flatMapItems(coursePace.modules) = <<>> \/ now = FirstStart - 1
       /\ args' = [coursePace |-> coursePace, blackOutDates |-> blackOutDates, now |-> now]
       /\ result' = getTimeToCompleteCalendarDaysFromItemsDuration(coursePace, blackOutDates,
                                                                   features, now)
  /\ op' = "getTimeToCompleteCalendarDaysFromItemsDuration"
  /\ UNCHANGED <<inputsAfter, features, dialogVars>>

CallGetItemsDurationFromTimeToComplete ==
  /\ op = "idle"
  /\ \E coursePace \in PacesToSpread, blackOutDays \in BlackoutDates,
        calendarDays \in (-1)..MaxBudget, itemsLength \in 0..MaxItems :
       /\ args' = [coursePace |-> coursePace, blackOutDays |-> blackOutDays,
                   calendarDays |-> calendarDays, itemsLength |-> itemsLength]
       /\ result' = getItemsDurationFromTimeToComplete(coursePace, blackOutDays,
                                                       calendarDays, itemsLength, features)
  /\ op' = "getItemsDurationFromTimeToComplete"
  /\ UNCHANGED <<inputsAfter, features, dialogVars>>

CallComponent ==
  /\ op = "idle"
  /\ \E document \in Documents, params \in RouteParams, alertList \in AlertLists :
       /\ args' = [document |-> document, params |-> params, alertList |-> alertList]
       /\ result' = Component(document, params, alertList)
  /\ op' = "Component"
  /\ UNCHANGED <<inputsAfter, features, dialogVars>>

\* the caller drops the call's values and is ready for the next call
Return ==
  /\ op # "idle"
  /\ op' = "idle"
  /\ args' = Null
  /\ result' = Null
  /\ inputsAfter' = Null
  /\ UNCHANGED <<features, dialogVars>>

Next ==
  \/ SetFeature
  \/ CallCalendarDaysToPaceDuration
  \/ CallCalculatePaceDuration
  \/ CallCalculatePaceItemDuration
  \/ CallIsTimeToCompleteCalendarDaysValid
  \/ Return

Spec == Init /\ [][Next]_vars

\* the callers of the utilities that project a pace from its items or its budget
NextProjection ==
  \/ SetFeature
  \/ CallGetTimeToCompleteCalendarDaysFromItemsDuration
  \/ CallGetItemsDurationFromTimeToComplete
  \/ Return

SpecProjection == Init /\ [][NextProjection]_vars

\* every exported utility
NextUtilities ==
  \/ SetFeature
  \/ CallCalendarDaysToPaceDuration
  \/ CallCalculatePaceDuration
  \/ CallCalculatePaceItemDuration
  \/ CallIsTimeToCompleteCalendarDaysValid
  \/ CallGetTimeToCompleteCalendarDaysFromItemsDuration
  \/ CallGetItemsDurationFromTimeToComplete
  \/ Return

SpecUtilities == Init /\ [][NextUtilities]_vars

\* the account settings route
NextRoute ==
  \/ CallComponent
  \/ Return

SpecRoute == Init /\ [][NextRoute]_vars

----------------------------------------------------------------------------
(* The user of MessageStudentsWhoDialog *)

\* the variables of the caller of the utilities
callerVars == <<op, args, result, inputsAfter, features>>

\* the dialog is mounted, observers loaded, and its first effects have run
InitDialog ==
  /\ op = "idle"
  /\ args = Null
  /\ result = Null
  /\ inputsAfter = Null
  /\ features = [course_paces_skip_selected_days |-> FALSE]
  /\ props \in DialogProps
  /\ dialog = mounted(props)
  /\ called = <<>>

\* onClose was called: the dialog is gone
Closed == \E i \in 1..Len(called) : called[i].fn = "onClose"

\* a handler ran that calls no callback and left the state d
Handled(d) ==
  /\ dialog' = d
  /\ called' = <<>>
  /\ UNCHANGED <<props, callerVars>>

HandleCriterionSelected ==
  /\ ~Closed
  /\ \E i \in 1..Len(availableCriteria(props.assignment)) :
       Handled(handleCriterionSelected(dialog, props,
                                       availableCriteria(props.assignment)[i].value))

OnSubmissionRadioSelect ==
  /\ ~Closed
  /\ dialog.selectedCriterion.value = "submitted"
  /\ \E value \in {"submitted", "submitted_and_graded", "submitted_and_not_graded"} :
       Handled(onSubmissionRadioSelect(dialog, props, value))

OnExcusedCheckBoxChange ==
  /\ ~Closed
  /\ dialog.selectedCriterion.value = "unsubmitted"
  /\ Handled(onExcusedCheckBoxChange(dialog, props, ~dialog.skipExcusedChecked))

OnCutoffChange ==
  /\ ~Closed
  /\ dialog.selectedCriterion.requiresCutoff
  /\ \E value \in CutoffInputs :
       Handled(onCutoffChange(dialog, props, value))

SetMessage ==
  /\ ~Closed
  /\ \E value \in Messages \ {dialog.message} :
       Handled([dialog EXCEPT !.message = value])

ToggleStudentSelection ==
  /\ ~Closed
  /\ \E i \in 1..Len(dialog.filteredStudents) :
       Handled(toggleStudentSelection(dialog, props, dialog.filteredStudents[i].id))

ToggleObserverSelection ==
  /\ ~Closed
  /\ \E i \in 1..Len(dialog.filteredStudents) :
       LET studentId == dialog.filteredStudents[i].id
       IN  /\ studentId \in DOMAIN props.observersByStudentID
           /\ \E j \in 1..Len(props.observersByStudentID[studentId]) :
                Handled(toggleObserverSelection(dialog, props, studentId,
                                                props.observersByStudentID[studentId][j]))

OnStudentsCheckboxChanged ==
  /\ ~Closed
  /\ ~dialog.isDisabledStudentsCheckbox
  /\ Handled(onStudentsCheckboxChanged(dialog, props, ~dialog.isCheckedStudentsCheckbox))

OnObserversCheckboxChanged ==
  /\ ~Closed
  /\ ~dialog.isDisabledObserversCheckbox
  /\ Handled(onObserversCheckboxChanged(dialog, props, ~dialog.isCheckedObserversCheckbox))

OnAddAttachment ==
  /\ ~Closed
  /\ \E file \in Files :
       /\ \A i \in 1..Len(dialog.pendingUploads) : dialog.pendingUploads[i] # file
       /\ \A i \in 1..Len(dialog.attachments) : dialog.attachments[i] # file
       /\ Handled(onAddAttachment(dialog, file))

\* an upload completes; AttachmentUploadSpinner is rendered with the new
\* pendingUploads
UploadComplete ==
  /\ ~Closed
  /\ \E i \in 1..Len(dialog.pendingUploads) :
       LET d == onUploadComplete(dialog, dialog.pendingUploads[i])
       IN  /\ dialog' = d
           /\ called' = attachmentUploadSpinner(d)
  /\ UNCHANGED <<props, callerVars>>

HandleSendButton ==
  /\ ~Closed
  /\ LET r == handleSendButton(dialog)
     IN  /\ dialog' = r.dialog
         /\ called' = r.called
  /\ UNCHANGED <<props, callerVars>>

NextDialog ==
  \/ HandleCriterionSelected
  \/ OnSubmissionRadioSelect
  \/ OnExcusedCheckBoxChange
  \/ OnCutoffChange
  \/ SetMessage
  \/ ToggleStudentSelection
  \/ ToggleObserverSelection
  \/ OnStudentsCheckboxChanged
  \/ OnObserversCheckboxChanged
  \/ OnAddAttachment
  \/ UploadComplete
  \/ HandleSendButton

SpecDialog == InitDialog /\ [][NextDialog]_vars

----------------------------------------------------------------------------
(* Properties of calendarDaysToPaceDuration and calculatePaceDuration *)

\* C1: for every non-negative integer d, calendarDaysToPaceDuration(d) is
\* {weeks: floor(d/7), days: d mod 7}: weeks*7 + days = d and 0 <= days <= 6;
\* 10 gives {weeks: 1, days: 3}.
C1_WeeksAndDays ==
  (op = "calendarDaysToPaceDuration" /\ args.calendarDays >= 0) =>
    /\ result.weeks = args.calendarDays \div 7
    /\ result.days = args.calendarDays % 7
    /\ result.weeks * 7 + result.days = args.calendarDays
    /\ result.days \in 0..6
    /\ (args.calendarDays = 10 => result = [weeks |-> 1, days |-> 3])

C1_Witness ==
  /\ op = "calendarDaysToPaceDuration"
  /\ args.calendarDays = 10
  /\ result = [weeks |-> 1, days |-> 3]

\* C2: for endDate >= startDate, calculatePaceDuration(startDate, endDate) is
\* the weeks and days of the number of calendar days from startDate to endDate,
\* both counted; 2022-01-01 to 2022-01-10 is 10 days and gives {weeks: 1, days: 3}.
C2_InclusiveSpan ==
  (op = "calculatePaceDuration" /\ args.endDate >= args.startDate) =>
    LET n == Cardinality(args.startDate..args.endDate)
    IN  /\ result = [weeks |-> n \div 7, days |-> n % 7]
        /\ ( /\ args.startDate = moment(Date(2022, 1, 1))
             /\ args.endDate = moment(Date(2022, 1, 10))
             => n = 10 /\ result = [weeks |-> 1, days |-> 3] )

C2_Witness ==
  /\ op = "calculatePaceDuration"
  /\ formatDate(args.startDate) = Date(2022, 1, 1)
  /\ formatDate(args.endDate) = Date(2022, 1, 10)
  /\ result = [weeks |-> 1, days |-> 3]

----------------------------------------------------------------------------
(* Properties of calculatePaceItemDuration *)

WeightedTypes == {"Assignment", "DiscussionTopic", "Quizzes::Quiz", "Page"}

\* the weight the weighting holds for an item type
WeightOf(type, weighting) ==
  CASE type = "Assignment"      -> weighting.assignment
    [] type = "DiscussionTopic" -> weighting.discussion
    [] type = "Quizzes::Quiz"   -> weighting.quiz
    [] type = "Page"            -> weighting.page

\* C3: an item of type Assignment, DiscussionTopic, Quizzes::Quiz or Page whose
\* type has a defined weight, whatever its value, gets that weight as duration.
C3_DefinedWeightReplacesDuration ==
  op = "calculatePaceItemDuration" =>
    \A i \in 1..Len(args.coursePaceItem) :
      LET item == args.coursePaceItem[i]
      IN  item.module_item_type \in WeightedTypes =>
            LET w == WeightOf(item.module_item_type, args.assignmentWeightedDuration)
            IN  w.defined => result[i].duration = w.value

\* What the code does for C3: a defined weight other than 0 replaces the duration.
C3_NonZeroWeightReplacesDuration ==
  op = "calculatePaceItemDuration" =>
    \A i \in 1..Len(args.coursePaceItem) :
      LET item == args.coursePaceItem[i]
      IN  item.module_item_type \in WeightedTypes =>
            LET w == WeightOf(item.module_item_type, args.assignmentWeightedDuration)
            IN  (w.defined /\ w.value # 0) => result[i].duration = w.value

\* C4: an item whose type has an undefined weight keeps its original duration,
\* while the items of the other types still receive their defined weights.
C4_UndefinedWeightKeepsDuration ==
  op = "calculatePaceItemDuration" =>
    \A i \in 1..Len(args.coursePaceItem) :
      LET item == args.coursePaceItem[i]
      IN  ( /\ item.module_item_type \in WeightedTypes
            /\ ~WeightOf(item.module_item_type, args.assignmentWeightedDuration).defined )
          =>
          /\ result[i].duration = item.duration
          /\ \A j \in 1..Len(args.coursePaceItem) :
               LET other == args.coursePaceItem[j]
               IN  ( /\ other.module_item_type \in WeightedTypes
                     /\ other.module_item_type # item.module_item_type
                     /\ WeightOf(other.module_item_type,
                                 args.assignmentWeightedDuration).defined )
                   => result[j].duration =
                        WeightOf(other.module_item_type,
                                 args.assignmentWeightedDuration).value

\* The half of C4 the code keeps: an undefined weight leaves the duration alone.
C4_UndefinedWeightAlone ==
  op = "calculatePaceItemDuration" =>
    \A i \in 1..Len(args.coursePaceItem) :
      LET item == args.coursePaceItem[i]
      IN  ( /\ item.module_item_type \in WeightedTypes
            /\ ~WeightOf(item.module_item_type, args.assignmentWeightedDuration).defined )
          => result[i].duration = item.duration

\* C5: an item of any other type keeps its original duration for every
\* weighting, and the call returns an item for it.
C5_UnknownTypeKeepsDuration ==
  op = "calculatePaceItemDuration" =>
    /\ DOMAIN result = 1..Len(args.coursePaceItem)
    /\ \A i \in 1..Len(args.coursePaceItem) :
         args.coursePaceItem[i].module_item_type \notin WeightedTypes =>
           result[i].duration = args.coursePaceItem[i].duration

C5_Witness ==
  /\ op = "calculatePaceItemDuration"
  /\ \A k \in DOMAIN args.assignmentWeightedDuration :
       args.assignmentWeightedDuration[k] = Some(MaxWeight)
  /\ \E i \in 1..Len(args.coursePaceItem) :
       /\ args.coursePaceItem[i].module_item_type = "ExternalTool"
       /\ args.coursePaceItem[i].duration = MaxDuration
       /\ result[i].duration = MaxDuration

\* C6: the result has the length and order of the input, every field of every
\* item other than duration is unchanged, and the input sequence, its items
\* and the weighting are as they were before the call.
C6_OnlyDurationChanges ==
  op = "calculatePaceItemDuration" =>
    /\ Len(result) = Len(args.coursePaceItem)
    /\ \A i \in 1..Len(args.coursePaceItem) :
         /\ DOMAIN result[i] = DOMAIN args.coursePaceItem[i]
         /\ \A f \in DOMAIN args.coursePaceItem[i] \ {"duration"} :
              result[i][f] = args.coursePaceItem[i][f]
    /\ inputsAfter.coursePaceItem = args.coursePaceItem
    /\ inputsAfter.assignmentWeightedDuration = args.assignmentWeightedDuration

C6_Witness ==
  /\ op = "calculatePaceItemDuration"
  /\ Len(args.coursePaceItem) = 2
  /\ args.coursePaceItem[1].module_item_type = "Page"
  /\ args.coursePaceItem[2].module_item_type = "Assignment"
  /\ result[1].duration # args.coursePaceItem[1].duration
  /\ result[2].duration # args.coursePaceItem[2].duration
  /\ inputsAfter.coursePaceItem = args.coursePaceItem

----------------------------------------------------------------------------
(* Properties of isTimeToCompleteCalendarDaysValid *)

\* the due dates the Due-Date Calculator assigns in the call that returned
AssignedDueDates ==
  getDueDates(args.coursePaceItem, args.coursePace.exclude_weekends,
              args.coursePace.selected_days_to_skip, args.blackoutDates,
              args.coursePace.start_date, features)

\* the call of the tests: start 2021-09-01, three items of duration 2
TestCall ==
  /\ op = "isTimeToCompleteCalendarDaysValid"
  /\ args.coursePace.start_date = Date(2021, 9, 1)
  /\ args.coursePaceItem = [i \in 1..3 |-> Item(i, "Assignment", 2)]

NoSkippedWeekdays ==
  args.coursePace.selected_days_to_skip = {} \/ ~features.course_paces_skip_selected_days

\* C7: the result is true iff the number of calendar days from start_date to
\* the latest of the assigned due dates, both counted, is at most
\* time_to_complete_calendar_days.
C7_ValidIffSpanWithinBudget ==
  (op = "isTimeToCompleteCalendarDaysValid" /\ args.coursePaceItem # <<>>) =>
    LET assigned == AssignedDueDates
        due      == {moment(assigned[k]) : k \in DOMAIN assigned}
        from     == moment(args.coursePace.start_date)
    IN  \E latest \in due :
          /\ \A d \in due : d <= latest
          /\ result = (Cardinality(from..latest)
                         <= args.coursePace.time_to_complete_calendar_days)

\* a call whose span is exactly the budget, on a pace that skips days
C7_Witness ==
  /\ op = "isTimeToCompleteCalendarDaysValid"
  /\ Len(args.coursePaceItem) = 3
  /\ args.coursePace.exclude_weekends
  /\ args.blackoutDates # <<>>
  /\ \E k \in DOMAIN AssignedDueDates :
       /\ \A j \in DOMAIN AssignedDueDates :
            moment(AssignedDueDates[j]) <= moment(AssignedDueDates[k])
       /\ moment(AssignedDueDates[k]) - moment(args.coursePace.start_date) + 1
            = args.coursePace.time_to_complete_calendar_days
  /\ result = TRUE

\* C8: with no weekend exclusion, no skipped weekdays and no blackout dates,
\* three items of duration 2 from 2021-09-01 end on 2021-09-07, a span of 7:
\* the result is true exactly when the budget is at least 7, so true for 7
\* and false for 4.
C8_PlainPace ==
  ( /\ TestCall
    /\ ~args.coursePace.exclude_weekends
    /\ NoSkippedWeekdays
    /\ args.blackoutDates = <<>> )
  =>
    /\ AssignedDueDates[3] = Date(2021, 9, 7)
    /\ result = (args.coursePace.time_to_complete_calendar_days >= 7)
    /\ (args.coursePace.time_to_complete_calendar_days = 7 => result = TRUE)
    /\ (args.coursePace.time_to_complete_calendar_days = 4 => result = FALSE)

C8_Witness ==
  /\ TestCall
  /\ ~args.coursePace.exclude_weekends
  /\ NoSkippedWeekdays
  /\ args.blackoutDates = <<>>
  /\ args.coursePace.time_to_complete_calendar_days = 7
  /\ result = TRUE

\* C9: 2021-09-01 is a Wednesday; with budget 7 and exclude_weekends the result
\* is false: without other skipped days the last due date is 2021-09-09, past
\* the weekend, and the span exceeds the budget.
C9_WeekendsExcluded ==
  ( /\ TestCall
    /\ args.coursePace.time_to_complete_calendar_days = 7
    /\ args.coursePace.exclude_weekends
    /\ args.blackoutDates = <<>> )
  =>
    /\ weekday(moment(args.coursePace.start_date)) = 3
    /\ result = FALSE
    /\ NoSkippedWeekdays => AssignedDueDates[3] = Date(2021, 9, 9)

C9_Witness ==
  /\ TestCall
  /\ args.coursePace.time_to_complete_calendar_days = 7
  /\ args.coursePace.exclude_weekends
  /\ args.blackoutDates = <<>>
  /\ ~features.course_paces_skip_selected_days
  /\ AssignedDueDates[2] = Date(2021, 9, 7)
  /\ result = FALSE

\* C10: with budget 7 and weekends not excluded, the blackout interval
\* 2021-09-02..2021-09-03 makes the result false: the blackout days are not
\* counted, so no due date falls on them and the last one moves past the budget.
C10_BlackoutDates ==
  ( /\ TestCall
    /\ args.coursePace.time_to_complete_calendar_days = 7
    /\ ~args.coursePace.exclude_weekends
    /\ args.blackoutDates = <<BlackoutDate(Date(2021, 9, 2), Date(2021, 9, 3))>> )
  =>
    /\ result = FALSE
    /\ \A k \in DOMAIN AssignedDueDates :
         AssignedDueDates[k] \notin {Date(2021, 9, 2), Date(2021, 9, 3)}
    /\ NoSkippedWeekdays => AssignedDueDates[3] = Date(2021, 9, 9)

C10_Witness ==
  /\ TestCall
  /\ args.coursePace.time_to_complete_calendar_days = 7
  /\ ~args.coursePace.exclude_weekends
  /\ args.blackoutDates = <<BlackoutDate(Date(2021, 9, 2), Date(2021, 9, 3))>>
  /\ NoSkippedWeekdays
  /\ AssignedDueDates[1] = Date(2021, 9, 5)
  /\ result = FALSE

\* C11: with budget 7, weekends not excluded and the skip-selected-days
\* feature on, selected_days_to_skip = {mon, tue} makes the result false:
\* no due date falls on a Monday or a Tuesday, and without blackout dates the
\* last due date is 2021-09-09, a span of 9.
C11_SelectedDaysToSkip ==
  ( /\ TestCall
    /\ args.coursePace.time_to_complete_calendar_days = 7
    /\ ~args.coursePace.exclude_weekends
    /\ features.course_paces_skip_selected_days
    /\ args.coursePace.selected_days_to_skip = {"mon", "tue"} )
  =>
    /\ result = FALSE
    /\ \A k \in DOMAIN AssignedDueDates :
         dayName(moment(AssignedDueDates[k])) \notin {"mon", "tue"}
    /\ args.blackoutDates = <<>> => AssignedDueDates[3] = Date(2021, 9, 9)

C11_Witness ==
  /\ TestCall
  /\ args.coursePace.time_to_complete_calendar_days = 7
  /\ ~args.coursePace.exclude_weekends
  /\ features.course_paces_skip_selected_days
  /\ args.coursePace.selected_days_to_skip = {"mon", "tue"}
  /\ args.blackoutDates = <<>>
  /\ AssignedDueDates[2] = Date(2021, 9, 5)
  /\ result = FALSE

----------------------------------------------------------------------------
(* Properties of getTimeToCompleteCalendarDaysFromItemsDuration *)

\* the number of items in the modules before module m
RECURSIVE ItemsBefore(_, _)
ItemsBefore(modules, m) ==
  IF m <= 1 THEN 0 ELSE ItemsBefore(modules, m - 1) + Len(modules[m - 1].items)

\* the items of all the modules in module order, then item order
InModuleOrder(modules) ==
  [k \in 1..ItemsBefore(modules, Len(modules) + 1) |->
     LET m == CHOOSE n \in 1..Len(modules) :
                /\ ItemsBefore(modules, n) < k
                /\ k <= ItemsBefore(modules, n) + Len(modules[n].items)
     IN  modules[m].items[k - ItemsBefore(modules, m)]]

\* C12: the result is the number of days from start_date to the latest due date
\* of the items of all the modules, taken in module order: the inclusive span
\* minus 1, the zero-based offset of that date from the start date.
C12_OffsetOfLastDueDate ==
  ( /\ op = "getTimeToCompleteCalendarDaysFromItemsDuration"
    /\ InModuleOrder(args.coursePace.modules) # <<>> )
  =>
    LET items    == InModuleOrder(args.coursePace.modules)
        assigned == getDueDates(items, args.coursePace.exclude_weekends,
                                args.coursePace.selected_days_to_skip, args.blackOutDates,
                                args.coursePace.start_date, features)
        due      == {moment(assigned[k]) : k \in DOMAIN assigned}
        from     == moment(args.coursePace.start_date)
    IN  /\ DOMAIN assigned = {items[k].id : k \in 1..Len(items)}
        /\ \E latest \in due :
             /\ \A d \in due : d <= latest
             /\ result = Cardinality(from..latest) - 1
             /\ from + result = latest

\* two modules with items in both, on a pace that skips days
C12_Witness ==
  /\ op = "getTimeToCompleteCalendarDaysFromItemsDuration"
  /\ Len(args.coursePace.modules) = 2
  /\ Len(args.coursePace.modules[1].items) = 1
  /\ Len(args.coursePace.modules[2].items) = 2
  /\ \A k \in 1..2 : args.coursePace.modules[2].items[k].duration = 2
  /\ args.coursePace.modules[1].items[1].duration = 2
  /\ args.coursePace.start_date = Date(2021, 9, 1)
  /\ args.coursePace.exclude_weekends
  /\ args.blackOutDates = <<>>
  /\ ~features.course_paces_skip_selected_days
  /\ result = 8

----------------------------------------------------------------------------
(* Properties of getItemsDurationFromTimeToComplete *)

Sentinel == [duration |-> Finite(0), remainder |-> Finite(0)]

\* day is one the pace of the call works on, under the flags of the call
Eligible(day) ==
  ~dayIsDisabled(day, args.coursePace.exclude_weekends,
                 args.coursePace.selected_days_to_skip, args.blackOutDays, features)

\* the day of the call's start date
StartDay == moment(args.coursePace.start_date)

\* the last day of the call's budget
LastDay == StartDay + args.calendarDays

\* no day after the start date and within the budget is eligible
NoEligibleDayInBudget == \A day \in (StartDay + 1)..LastDay : ~Eligible(day)

\* the first eligible day after the start date, when the budget holds one
FirstEligibleDay ==
  CHOOSE day \in (StartDay + 1)..LastDay :
    Eligible(day) /\ \A earlier \in (StartDay + 1)..(day - 1) : ~Eligible(earlier)

\* C13: getItemsDurationFromTimeToComplete returns {duration: 0, remainder: 0}
\* whenever calendarDays < 1 or the pace has no start date, whatever the
\* exclusion flags, the blackout dates and itemsLength (0 included) are.
C13_SentinelOnDegenerateInput ==
  (/\ op = "getItemsDurationFromTimeToComplete"
   /\ (args.calendarDays < 1 \/ args.coursePace.start_date = Undefined))
  => result = Sentinel

C13_Witness ==
  /\ op = "getItemsDurationFromTimeToComplete"
  /\ args.coursePace.start_date = Undefined
  /\ args.calendarDays = 5
  /\ args.itemsLength = 0
  /\ args.coursePace.exclude_weekends
  /\ args.blackOutDays # <<>>
  /\ result = Sentinel

\* C14: when the first eligible day after start_date (weekends, selected days
\* and blackout dates skipped as the pace says) falls after the end of the day
\* start_date + calendarDays, the result is {duration: 0, remainder: 0}.
C14_SentinelOnInvertedRange ==
  (/\ op = "getItemsDurationFromTimeToComplete"
   /\ args.calendarDays >= 1
   /\ args.coursePace.start_date # Undefined
   /\ NoEligibleDayInBudget)
  => result = Sentinel

C14_Witness ==
  /\ op = "getItemsDurationFromTimeToComplete"
  /\ args.coursePace.start_date = Date(2021, 9, 1)
  /\ args.calendarDays = 2
  /\ args.itemsLength = 0
  /\ NoEligibleDayInBudget
  /\ result = Sentinel

\* C15: when no sentinel case applies and itemsLength >= 1, with T the number
\* of eligible days after the first eligible day and up to the last day of the
\* budget: duration = floor(T / itemsLength), remainder = T mod itemsLength,
\* duration * itemsLength + remainder = T and 0 <= remainder < itemsLength.
C15_QuotientAndRemainder ==
  (/\ op = "getItemsDurationFromTimeToComplete"
   /\ args.calendarDays >= 1
   /\ args.coursePace.start_date # Undefined
   /\ ~NoEligibleDayInBudget
   /\ args.itemsLength >= 1)
  => LET T == Cardinality({day \in (FirstEligibleDay + 1)..LastDay : Eligible(day)})
     IN  /\ result.duration.kind = "finite"
         /\ result.remainder.kind = "finite"
         /\ result.duration.value = T \div args.itemsLength
         /\ result.remainder.value = T % args.itemsLength
         /\ result.duration.value * args.itemsLength + result.remainder.value = T
         /\ 0 <= result.remainder.value
         /\ result.remainder.value < args.itemsLength

C15_Witness ==
  /\ op = "getItemsDurationFromTimeToComplete"
  /\ args.coursePace.start_date = Date(2021, 9, 1)
  /\ args.coursePace.exclude_weekends
  /\ args.blackOutDays = <<>>
  /\ args.coursePace.selected_days_to_skip = {}
  /\ args.calendarDays = 8
  /\ args.itemsLength = 3
  /\ result = [duration |-> Finite(1), remainder |-> Finite(2)]

----------------------------------------------------------------------------
(* Properties of all the utilities *)

\* v is a JavaScript number
IsJsNumber(v) ==
  /\ DOMAIN v = {"kind", "value"}
  /\ v.kind \in {"finite", "NaN", "Infinity", "-Infinity"}
  /\ v.value \in Int

\* v is a PaceDuration
IsPaceDuration(v) ==
  /\ DOMAIN v = {"weeks", "days"}
  /\ v.weeks \in Int
  /\ v.days \in Int

\* C16: no utility raises an error: whatever the input, degenerate ones
\* included (a non-positive budget, a missing start date, an inverted range,
\* itemsLength = 0), each call returns a value of its return type.
C16_NoErrorRaised ==
  /\ op \in {"calendarDaysToPaceDuration", "calculatePaceDuration"}
       => IsPaceDuration(result)
  /\ op = "calculatePaceItemDuration"
       => /\ Len(result) = Len(args.coursePaceItem)
          /\ \A i \in 1..Len(result) : result[i].duration \in Int
  /\ op = "isTimeToCompleteCalendarDaysValid" => result \in BOOLEAN
  /\ op = "getTimeToCompleteCalendarDaysFromItemsDuration" => result \in Int
  /\ op = "getItemsDurationFromTimeToComplete"
       => /\ DOMAIN result = {"duration", "remainder"}
          /\ IsJsNumber(result.duration)
          /\ IsJsNumber(result.remainder)

\* a division by itemsLength = 0 returns Infinity and NaN, it raises nothing
C16_Witness ==
  /\ op = "getItemsDurationFromTimeToComplete"
  /\ args.itemsLength = 0
  /\ args.calendarDays = 5
  /\ result = [duration |-> Infinity, remainder |-> NaN]

----------------------------------------------------------------------------
(* Purity of isTimeToCompleteCalendarDaysValid *)

\* the result of the call's arguments under another flag and current time
ValidUnder(flag, now) ==
  isTimeToCompleteCalendarDaysValid(args.coursePace, args.coursePaceItem,
                                    args.blackoutDates,
                                    [course_paces_skip_selected_days |-> flag], now)

----------------------------------------------------------------------------
(* Properties of the account settings route *)

\* the ids of the tabs' mount points, in the order of the tabs
TabMountPoints == <<"tab-notifications", "tab-features", "alerts_mount_point">>

\* the tab with this mount point is rendered by the call
TabRendered(id) ==
  /\ \E e \in args.document : e.id = id
  /\ id = "alerts_mount_point" => args.alertList # Null

\* the ids of the rendered tabs' mount points, in the order of the tabs
RenderedTabs == SelectSeq(TabMountPoints, TabRendered)

----------------------------------------------------------------------------
(* Properties of MessageStudentsWhoDialog *)

\* the criteria that stand for a radio button or for the checkbox
HiddenCriteria ==
  {"submitted_and_graded", "submitted_and_not_graded", "unsubmitted_skip_excused"}

\* C18: whatever the assignment (or none), submitted_and_graded,
\* submitted_and_not_graded and unsubmitted_skip_excused are never among the
\* criteria of the dropdown, and selectedCriterion is never one of them after
\* any sequence of user actions: they filter the list through the radio group
\* and the skip-excused checkbox only.
C18_HiddenCriteriaNeverSelected ==
  /\ \A i \in 1..Len(availableCriteria(props.assignment)) :
       availableCriteria(props.assignment)[i].value \notin HiddenCriteria
  /\ dialog.selectedCriterion.value \notin HiddenCriteria

\* the list is filtered by submitted_and_graded through the radio group,
\* while the dropdown stays on submitted
C18_Witness ==
  /\ dialog.selectedCriterion.value = "submitted"
  /\ dialog.submissionRadio = "graded"
  /\ dialog.filteredStudents
       = filterStudents(findCriterion("submitted_and_graded"),
                        sortedStudents(props.students), dialog.cutoff)
  /\ Len(dialog.filteredStudents) = 1

\* C19: Send pressed on a valid form while uploads are pending sets sending
\* and calls neither onSend nor onClose in that step; when the last pending
\* upload of a sending dialog completes, onSend is called, once.
C19_SendWaitsForUploads ==
  [][ /\ (HandleSendButton /\ isFormDataValid(dialog) /\ Len(dialog.pendingUploads) # 0)
         => (dialog'.sending /\ called' = <<>>)
      /\ (dialog.sending /\ Len(dialog.pendingUploads) # 0
            /\ Len(dialog'.pendingUploads) = 0)
         => (Len(called') = 1 /\ called'[1].fn = "onSend") ]_vars

\* Send was pressed with an upload pending, the upload completed, and onSend
\* has just been called by the spinner
C19_Witness ==
  /\ dialog.sending
  /\ dialog.isSubmitted
  /\ Len(dialog.pendingUploads) = 0
  /\ Len(dialog.attachments) = 1
  /\ called = <<[fn |-> "onSend", caller |-> "AttachmentUploadSpinner"]>>

Ids(array) == {array[i] : i \in 1..Len(array)}

\* the ids of the observers selected under any student
SelectedObserverIds(d) ==
  UNION {Ids(d.selectedObservers[id]) : id \in DOMAIN d.selectedObservers}

\* body is text without the white space at its ends
IsTrimmed(body, text) ==
  /\ body # <<>> => (body[1] # " " /\ body[Len(body)] # " ")
  /\ \E before, after \in 0..Len(text) :
       /\ before + Len(body) + after = Len(text)
       /\ \A i \in 1..Len(body) : text[before + i] = body[i]
       /\ \A i \in 1..before : text[i] = " "
       /\ \A i \in (Len(text) - after + 1)..Len(text) : text[i] = " "

\* C22: Send on a valid form with no pending upload calls onSend once and
\* then onClose; the recipientsIds passed hold no id twice and are the union
\* of the selected student ids and the selected observer ids; body is the
\* trimmed message.
C22_SendsOnceToUniqueRecipients ==
  [][ (HandleSendButton /\ isFormDataValid(dialog) /\ Len(dialog.pendingUploads) = 0)
      => /\ Len(called') = 2
         /\ called'[1].fn = "onSend"
         /\ called'[2].fn = "onClose"
         /\ LET sent == called'[1].args
            IN  /\ \A i, j \in 1..Len(sent.recipientsIds) :
                     sent.recipientsIds[i] = sent.recipientsIds[j] => i = j
                /\ Ids(sent.recipientsIds)
                     = Ids(dialog.selectedStudents) \cup SelectedObserverIds(dialog)
                /\ IsTrimmed(sent.body, dialog.message) ]_vars

\* sent to two students and to the observer of both, who is listed once
C22_Witness ==
  /\ Len(called) = 2
  /\ called[1].fn = "onSend"
  /\ called[2].fn = "onClose"
  /\ {1, 3} \subseteq DOMAIN dialog.selectedObservers
  /\ dialog.selectedObservers[1] = <<10>>
  /\ dialog.selectedObservers[3] = <<10>>
  /\ called[1].args.recipientsIds = <<1, 3, 10>>
  /\ called[1].args.body = <<"h", "i">>

\* the ids of the students in the filtered list
FilteredIds(d) == {d.filteredStudents[i].id : i \in 1..Len(d.filteredStudents)}

\* C23: in every settled state, after any sequence of criterion changes,
\* cutoff edits, pill toggles and select-all or deselect-all changes, every
\* selected student is in the filtered list and every selected observer is
\* an observer of a student in the filtered list.
C23_SelectionWithinFilter ==
  /\ Ids(dialog.selectedStudents) \subseteq FilteredIds(dialog)
  /\ \A id \in DOMAIN dialog.selectedObservers :
       \A i \in 1..Len(dialog.selectedObservers[id]) :
         /\ id \in FilteredIds(dialog)
         /\ id \in DOMAIN props.observersByStudentID
         /\ dialog.selectedObservers[id][i] \in Ids(props.observersByStudentID[id])

\* two of the three students are in the list; one of them and their observer
\* are selected by hand
C23_Witness ==
  /\ FilteredIds(dialog) = {1, 3}
  /\ dialog.selectedStudents = <<3>>
  /\ DOMAIN dialog.selectedObservers = {1, 3}
  /\ dialog.selectedObservers[3] = <<10>>
  /\ dialog.selectedObservers[1] = <<>>

\* the criterion the inputs of the dialog show: the dropdown's, refined by
\* the radio group under 'submitted' and by the checkbox under 'unsubmitted'
EffectiveCriterion(d) ==
  CASE d.selectedCriterion.value = "submitted" /\ d.submissionRadio = "graded"
         -> findCriterion("submitted_and_graded")
    [] d.selectedCriterion.value = "submitted" /\ d.submissionRadio = "not_graded"
         -> findCriterion("submitted_and_not_graded")
    [] d.selectedCriterion.value = "unsubmitted" /\ d.skipExcusedChecked
         -> findCriterion("unsubmitted_skip_excused")
    [] OTHER -> d.selectedCriterion

\* C24: after any sequence of criterion selections, radio selections,
\* skip-excused changes and cutoff edits, the filtered list is filterStudents
\* of the name-sorted students under the effective criterion and the current
\* cutoff, also after the cutoff was edited to 0 or cleared.
C24_FilteredByCurrentCutoff ==
  dialog.filteredStudents
    = filterStudents(EffectiveCriterion(dialog), sortedStudents(props.students),
                     dialog.cutoff)

\* under a criterion with a cutoff, the filtered list follows every cutoff
\* other than 0
C24_FilteredUnlessCutoffZero ==
  (dialog.selectedCriterion.requiresCutoff /\ dialog.cutoff # Finite(0))
  => C24_FilteredByCurrentCutoff

\* C25: every change of the filtered list resets the selection: once the
\* effects have run, selectedStudents is the ids of all the filtered
\* students and selectedObservers maps each of them to an empty list,
\* whatever was toggled before.
C25_FilterChangeResetsSelection ==
  [][ dialog'.filteredStudents # dialog.filteredStudents
      => /\ Ids(dialog'.selectedStudents) = FilteredIds(dialog')
         /\ Len(dialog'.selectedStudents) = Len(dialog'.filteredStudents)
         /\ dialog'.selectedObservers = [id \in FilteredIds(dialog') |-> <<>>] ]_vars

\* the radio group has narrowed the list from two students to one, and the
\* selection is that one student with no observer
C25_Witness ==
  /\ dialog.selectedCriterion.value = "submitted"
  /\ dialog.submissionRadio = "graded"
  /\ FilteredIds(dialog) = {1}
  /\ dialog.selectedStudents = <<1>>
  /\ dialog.selectedObservers = [id \in {1} |-> <<>>]

\* the pairs of a filtered student and one of their observers
FilteredObservers ==
  {pair \in FilteredIds(dialog) \X UNION {Ids(props.observersByStudentID[id]) :
                                            id \in DOMAIN props.observersByStudentID} :
     /\ pair[1] \in DOMAIN props.observersByStudentID
     /\ pair[2] \in Ids(props.observersByStudentID[pair[1]])}

\* the pairs of a student and an observer selected under them
SelectedObserverPairs ==
  UNION {{<<id, dialog.selectedObservers[id][i]>> :
            i \in 1..Len(dialog.selectedObservers[id])} :
         id \in DOMAIN dialog.selectedObservers}

\* C26: in every settled state the Students checkbox is disabled iff the
\* filtered list is empty, checked iff the list is not empty and as many
\* students are selected as are filtered, indeterminate iff 0 < selected <
\* filtered, and never both checked and indeterminate; the Observers checkbox
\* likewise, against the observers of the filtered students.
C26_CheckboxesFollowSelection ==
  LET filtered == Len(dialog.filteredStudents)
      selected == Len(dialog.selectedStudents)
      observers == Cardinality(FilteredObservers)
      selectedObservers == Cardinality(SelectedObserverPairs)
  IN  /\ dialog.isDisabledStudentsCheckbox <=> filtered = 0
      /\ dialog.isCheckedStudentsCheckbox <=> (filtered > 0 /\ selected = filtered)
      /\ dialog.isIndeterminateStudentsCheckbox <=> (0 < selected /\ selected < filtered)
      /\ ~(dialog.isCheckedStudentsCheckbox /\ dialog.isIndeterminateStudentsCheckbox)
      /\ dialog.isDisabledObserversCheckbox <=> observers = 0
      /\ dialog.isCheckedObserversCheckbox
           <=> (observers > 0 /\ selectedObservers = observers)
      /\ dialog.isIndeterminateObserversCheckbox
           <=> (0 < selectedObservers /\ selectedObservers < observers)
      /\ ~(dialog.isCheckedObserversCheckbox /\ dialog.isIndeterminateObserversCheckbox)

\* one of two filtered students and one of their two observers are selected:
\* both checkboxes are indeterminate
C26_Witness ==
  /\ FilteredIds(dialog) = {1, 3}
  /\ dialog.selectedStudents = <<1>>
  /\ SelectedObserverPairs = {<<3, 10>>}
  /\ dialog.isIndeterminateStudentsCheckbox
  /\ dialog.isIndeterminateObserversCheckbox
  /\ ~dialog.isCheckedStudentsCheckbox
  /\ ~dialog.isDisabledObserversCheckbox

====
